---- MODULE Spec2Model ----
(***************************************************************************)
(* S3ToRedshiftOperator (providers/amazon/aws/transfers/s3_to_redshift.py) *)
(* as a state machine: construction (__init__), then execute() split at    *)
(* its calls to the hooks, then the warehouse session running the          *)
(* submitted statements.                                                   *)
(*                                                                         *)
(* Python values: an Optional is a sequence of length <= 1 (None is << >>, *)
(* a value x is <<x>>); a list is a sequence; a dict is a function from    *)
(* its keys; a str is a string, built with \o exactly as the f-strings     *)
(* build it.                                                               *)
(***************************************************************************)
EXTENDS Integers, Sequences, FiniteSets, Bags, TLC

VARIABLES
    pc,      \* position of the run: "new", "ready", ... "done" / "failed"
    self,    \* the operator's fields, as __init__ assigns them
    err,     \* the exception the run ended with, "" when none
    calls,   \* the calls made on the hooks so far, in order
    loc,     \* the local variables of execute()
    sent,    \* what was handed to execute_query / run
    db       \* the warehouse: the committed destination table and the session

vars == <<pc, self, err, calls, loc, sent, db>>

----------------------------------------------------------------------------
(* Python helpers *)

None == << >>
Some(x) == <<x>>

\* bool(x) of an Optional[str], Optional[list] or Optional[dict]
Truthy(o, empty) == o # None /\ o[1] # empty

\* `x or default` for an Optional whose falsy value is `empty`
OrElse(o, empty, default) == IF Truthy(o, empty) THEN o[1] ELSE default

RECURSIVE Join(_, _)
\* sep.join(parts)
Join(sep, parts) ==
    IF parts = << >> THEN ""
    ELSE IF Len(parts) = 1 THEN parts[1]
    ELSE parts[1] \o sep \o Join(sep, Tail(parts))

----------------------------------------------------------------------------
(* Bounds and the inputs drawn from them *)

MaxKeys == 2      \* longest upsert_keys / primary key tried
MaxId == 2        \* ids of the rows the destination holds before the load

Columns == {"id", "v"}

RECURSIVE ListsUpTo(_, _)
\* the lists of distinct elements of S, at most n long
ListsUpTo(S, n) ==
    IF n = 0 THEN {<< >>}
    ELSE LET shorter == ListsUpTo(S, n - 1)
         IN  shorter \cup
                UNION {{Append(t, x) : x \in S \ {t[i] : i \in 1..Len(t)}} :
                            t \in {u \in shorter : Len(u) = n - 1}}

KeyLists == ListsUpTo(Columns, MaxKeys)

AVAILABLE_METHODS == <<"APPEND", "REPLACE", "UPSERT">>


\* method: the three methods, a name that is no method, a wrong-case name
Methods == {"APPEND", "REPLACE", "UPSERT", "MERGE", "upsert"}

\* schema: absent, empty, given
Schemas == {None, Some(""), Some("public")}

\* upsert_keys: absent, or a list (the empty list included)
UpsertKeyArgs == {None} \cup {Some(k) : k \in KeyLists}

\* redshift_data_api_kwargs: absent, empty, Data API arguments, and dicts
\* holding a reserved key
DataApiKwargs ==
    { None,
      Some(<< >>),
      Some([k \in {"database"} |-> "dev"]),
      Some([k \in {"database", "sql"} |-> "dev"]),
      Some([k \in {"parameters"} |-> "dev"]) }

\* column_list, copy_options, aws_conn_id: absent or given
ColumnLists == {None, Some(<<"id", "v">>)}
CopyOptions == {None, Some(<<"csv", "gzip">>)}
AwsConnIds == {None, Some("aws_default")}

\* extra_dejson of the S3 connection
ExtraValue == [region |-> "eu-west-1", role_arn |-> "arn:aws:iam::1:role/load"]
ConnExtras == {[k \in D |-> ExtraValue[k]] : D \in SUBSET {"region", "role_arn"}}

\* what build_credentials_block(s3_hook.get_credentials()) returns
CredentialBlocks == {"aws_access_key_id=AK;aws_secret_access_key=SK"}

\* what get_table_primary_key returns: None, or the key's columns (a hook
\* may also answer with an empty list)
DiscoveredKeys == {None} \cup {Some(k) : k \in KeyLists}

\* the constructor's arguments; upsert_keys runs over every list for UPSERT,
\* and over absent / given for the other methods, which never read it;
\* column_list and copy_options are both left out or both given
Args ==
    { a \in [ schema : Schemas, table : {"orders"}, s3_bucket : {"bucket"},
              s3_key : {"key"}, redshift_conn_id : {"redshift_default"},
              aws_conn_id : AwsConnIds, verify : {None}, column_list : ColumnLists,
              copy_options : CopyOptions, autocommit : BOOLEAN, method : Methods,
              upsert_keys : UpsertKeyArgs,
              redshift_data_api_kwargs : DataApiKwargs ] :
        /\ a.method # "UPSERT" => a.upsert_keys \in {None, Some(<<"id">>)}
        /\ a.column_list = None <=> a.copy_options = None }

----------------------------------------------------------------------------
(* The operator's pure parts *)

\* the value of the local `sql`: a str (one statement) or a list of them
PyStr(s) == [is_list |-> FALSE, stmts |-> <<s>>]
PyList(l) == [is_list |-> TRUE, stmts |-> l]
NoSql == [is_list |-> FALSE, stmts |-> << >>]

\* __init__, the assignments
InitFields(a) ==
    [ schema |-> a.schema, table |-> a.table, s3_bucket |-> a.s3_bucket,
      s3_key |-> a.s3_key, redshift_conn_id |-> a.redshift_conn_id,
      aws_conn_id |-> a.aws_conn_id, verify |-> a.verify,
      column_list |-> a.column_list,
      copy_options |-> OrElse(a.copy_options, << >>, << >>),
      autocommit |-> a.autocommit, method |-> a.method,
      upsert_keys |-> a.upsert_keys,
      redshift_data_api_kwargs |-> OrElse(a.redshift_data_api_kwargs, << >>, << >>) ]

\* __init__, the check of the Data API kwargs: the message raised, "" if none
\* as ReservedKwargError, with `for arg in ["sql"]`
ReservedKwargError_SqlOnly(kwargs) ==
    IF kwargs # << >> /\ "sql" \in DOMAIN kwargs
    THEN "Cannot include param 'sql' in Redshift Data API kwargs"
    ELSE ""

ReservedKwargError(kwargs) ==
    IF kwargs # << >> /\ "sql" \in DOMAIN kwargs
    THEN "Cannot include param 'sql' in Redshift Data API kwargs"
    ELSE IF kwargs # << >> /\ "parameters" \in DOMAIN kwargs
    THEN "Cannot include param 'parameters' in Redshift Data API kwargs"
    ELSE ""

use_redshift_data(s) == s.redshift_data_api_kwargs # << >>

\* as MethodFound, with `if not self.method`
MethodFound_NonEmpty(method) == method # ""

MethodFound(method) ==
    \E i \in 1..Len(AVAILABLE_METHODS) : AVAILABLE_METHODS[i] = method

MethodError == "Method not found! Available methods: ['APPEND', 'REPLACE', 'UPSERT']"

\* dict.get(key, False), as a condition
ExtraGiven(conn, key) ==
    conn # None /\ key \in DOMAIN conn[1] /\ conn[1][key] # ""

region_info(conn) ==
    IF ExtraGiven(conn, "region") THEN "region '" \o conn[1]["region"] \o "'" ELSE ""

\* as destination, with the schema dropped
destination_TableOnly(s) == s.table

destination(s) ==
    IF Truthy(s.schema, "") THEN s.schema[1] \o "." \o s.table ELSE s.table

copy_destination(s) ==
    IF s.method = "UPSERT" THEN "#" \o s.table ELSE destination(s)

Indent == "                    "

_build_copy_query(s, copy_dest, credentials_block, region, copy_options) ==
    LET column_names ==
            IF Truthy(s.column_list, << >>)
            THEN "(" \o Join(", ", s.column_list[1]) \o ")"
            ELSE ""
    IN  "\n" \o Indent \o "COPY " \o copy_dest \o " " \o column_names \o "\n"
        \o Indent \o "FROM 's3://" \o s.s3_bucket \o "/" \o s.s3_key \o "'\n"
        \o Indent \o "credentials\n"
        \o Indent \o "'" \o credentials_block \o "'\n"
        \o Indent \o region \o "\n"
        \o Indent \o copy_options \o ";\n"
        \o "        "

\* as where_statement, with " OR ".join
where_statement_Or(s, keys, copy_dest) ==
    Join(" OR ",
         [i \in 1..Len(keys) |->
            s.table \o "." \o keys[i] \o " = " \o copy_dest \o "." \o keys[i]])

where_statement(s, keys, copy_dest) ==
    Join(" AND ",
         [i \in 1..Len(keys) |->
            s.table \o "." \o keys[i] \o " = " \o copy_dest \o "." \o keys[i]])

\* as ReplaceSql, with the DELETE ahead of BEGIN;
ReplaceSql_DeleteFirst(s, copy_statement) ==
    <<"DELETE FROM " \o destination(s) \o ";", "BEGIN;", copy_statement, "COMMIT">>

ReplaceSql(s, copy_statement) ==
    <<"BEGIN;", "DELETE FROM " \o destination(s) \o ";", copy_statement, "COMMIT">>

\* as UpsertSql, with BEGIN; ahead of the CREATE TABLE
UpsertSql_BeginFirst(s, keys, copy_statement) ==
    << "BEGIN;",
       "CREATE TABLE " \o copy_destination(s) \o " (LIKE " \o destination(s)
            \o " INCLUDING DEFAULTS);",
       copy_statement,
       "DELETE FROM " \o destination(s) \o " USING " \o copy_destination(s)
            \o " WHERE " \o where_statement(s, keys, copy_destination(s)) \o ";",
       "INSERT INTO " \o destination(s) \o " SELECT * FROM " \o copy_destination(s) \o ";",
       "COMMIT" >>

UpsertSql(s, keys, copy_statement) ==
    << "CREATE TABLE " \o copy_destination(s) \o " (LIKE " \o destination(s)
            \o " INCLUDING DEFAULTS);",
       copy_statement,
       "BEGIN;",
       "DELETE FROM " \o destination(s) \o " USING " \o copy_destination(s)
            \o " WHERE " \o where_statement(s, keys, copy_destination(s)) \o ";",
       "INSERT INTO " \o destination(s) \o " SELECT * FROM " \o copy_destination(s) \o ";",
       "COMMIT" >>

\* `self.upsert_keys or <hook>.get_table_primary_key(...)`
ResolveKeys(s, discovered) ==
    IF Truthy(s.upsert_keys, << >>) THEN s.upsert_keys ELSE discovered

\* whether the `or` evaluates its right-hand side
AsksBackendForKeys(s) == ~Truthy(s.upsert_keys, << >>)

\* as NoKeys, with `if keys is None`
NoKeys_NoneOnly(keys) == keys = None

\* `if not keys`
NoKeys(keys) == ~Truthy(keys, << >>)

NoPrimaryKeyError(s) ==
    "No primary key on " \o (IF s.schema = None THEN "None" ELSE s.schema[1])
        \o "." \o s.table \o ". Please provide keys on 'upsert_keys'"

\* as PlanSql, with APPEND wrapped in BEGIN; .. COMMIT
PlanSql_WrapAppend(s, keys, copy_statement) ==
    IF s.method = "REPLACE" THEN PyList(ReplaceSql(s, copy_statement))
    ELSE IF s.method = "UPSERT" THEN PyList(UpsertSql(s, keys, copy_statement))
    ELSE PyList(<<"BEGIN;", copy_statement, "COMMIT">>)

\* as PlanSql, with the Data API variant handing over the COPY alone
PlanSql_DataCopyOnly(s, keys, copy_statement) ==
    IF use_redshift_data(s) THEN PyStr(copy_statement)
    ELSE IF s.method = "REPLACE" THEN PyList(ReplaceSql(s, copy_statement))
    ELSE IF s.method = "UPSERT" THEN PyList(UpsertSql(s, keys, copy_statement))
    ELSE PyStr(copy_statement)

\* the statement list of the method, once the keys are known
PlanSql(s, keys, copy_statement) ==
    IF s.method = "REPLACE" THEN PyList(ReplaceSql(s, copy_statement))
    ELSE IF s.method = "UPSERT" THEN PyList(UpsertSql(s, keys, copy_statement))
    ELSE PyStr(copy_statement)

----------------------------------------------------------------------------
(* The warehouse behind the hooks.  One real table, public.orders, and a  *)
(* session that honours BEGIN / COMMIT: what a statement changes inside a  *)
(* transaction is seen by other sessions at COMMIT, and is dropped if the  *)
(* session ends first.  Statements are read from their text.               *)

Row(i, val) == [id |-> i, v |-> val]

\* the destination before the load
PreRows == SetToBag({Row(i, "old") : i \in 1..MaxId})

\* what the S3 objects hold: a changed row and a new one; a copy of an
\* existing row
SourceData ==
    { SetToBag({Row(1, "new"), Row(MaxId + 1, "old")}),
      SetToBag({Row(1, "old")}) }

DbSchema == "public"
DbTable == "orders"

IsSpace(c) == c \in {" ", "\n", "\t"}

Char(s, i) == SubSeq(s, i, i)

\* the first index >= i of s that holds no space, Len(s) + 1 if none
WordStart(s, i) ==
    IF \A j \in i..Len(s) : IsSpace(Char(s, j)) THEN Len(s) + 1
    ELSE CHOOSE j \in i..Len(s) :
            ~IsSpace(Char(s, j)) /\ \A k \in i..(j - 1) : IsSpace(Char(s, k))

\* the last index of the word that starts at i
WordEnd(s, i) ==
    CHOOSE j \in i..Len(s) :
        /\ j = Len(s) \/ IsSpace(Char(s, j + 1))
        /\ \A k \in i..j : ~IsSpace(Char(s, k))

RECURSIVE TokensFrom(_, _)
TokensFrom(s, i) ==
    LET b == WordStart(s, i)
    IN  IF b > Len(s) THEN << >>
        ELSE LET e == WordEnd(s, b)
             IN  <<SubSeq(s, b, e)>> \o TokensFrom(s, e + 1)

\* the words of a statement, split at spaces, tabs and newlines
Tokens(s) == TokensFrom(s, 1)

\* a word without its closing ";"
Unsemi(w) ==
    IF Len(w) > 0 /\ Char(w, Len(w)) = ";" THEN SubSeq(w, 1, Len(w) - 1) ELSE w

RECURSIVE LastDot(_, _)
\* the index of the last "." of w at or before i, 0 if none
LastDot(w, i) ==
    IF i = 0 THEN 0 ELSE IF Char(w, i) = "." THEN i ELSE LastDot(w, i - 1)

\* "t.c" -> "t" and "c"
Qualifier(w) == LET d == LastDot(w, Len(w)) IN IF d = 0 THEN "" ELSE SubSeq(w, 1, d - 1)
Unqualified(w) == SubSeq(w, LastDot(w, Len(w)) + 1, Len(w))

\* which table a name means in the session: a "#" name is a temporary
\* table, orders and public.orders are the destination
Resolve(name) ==
    IF Len(name) > 0 /\ Char(name, 1) = "#" THEN "temp"
    ELSE IF Unqualified(name) = DbTable /\ Qualifier(name) \in {"", DbSchema}
    THEN "destination"
    ELSE "unknown"

RECURSIVE Conjuncts(_)
\* the words after WHERE: a = b [AND a = b]...  -> <<a, b>> pairs
Conjuncts(w) ==
    IF Len(w) < 3 THEN << >>
    ELSE <<<<w[1], Unsemi(w[3])>>>>
         \o (IF Len(w) >= 4 /\ w[4] = "AND" THEN Conjuncts(SubSeq(w, 5, Len(w))) ELSE << >>)

\* the first two words of a statement
Leading(s) ==
    LET b1 == WordStart(s, 1)
        e1 == IF b1 > Len(s) THEN b1 ELSE WordEnd(s, b1)
        b2 == WordStart(s, e1 + 1)
        e2 == IF b2 > Len(s) THEN b2 ELSE WordEnd(s, b2)
    IN  [first |-> IF b1 > Len(s) THEN "" ELSE SubSeq(s, b1, e1),
         second |-> IF b2 > Len(s) THEN "" ELSE SubSeq(s, b2, e2)]

\* a statement, read from its text; of a COPY only the table it loads is read
Parse(stmt) ==
    LET lead == Leading(stmt)
    IN  IF lead.first = "COPY"
        THEN IF lead.second # "" THEN [op |-> "COPY", target |-> lead.second]
             ELSE [op |-> "?"]
        ELSE
        LET w == Tokens(stmt)
            n == Len(w)
        IN  IF n = 1 /\ Unsemi(w[1]) = "BEGIN" THEN [op |-> "BEGIN"]
            ELSE IF n = 1 /\ Unsemi(w[1]) = "COMMIT" THEN [op |-> "COMMIT"]
            ELSE IF n = 3 /\ w[1] = "DELETE" /\ w[2] = "FROM"
            THEN [op |-> "DELETE", target |-> Unsemi(w[3])]
            ELSE IF n >= 9 /\ w[1] = "DELETE" /\ w[2] = "FROM" /\ w[4] = "USING"
                    /\ w[6] = "WHERE"
            THEN [op |-> "DELETE USING", target |-> w[3], using |-> w[5],
                  on |-> Conjuncts(SubSeq(w, 7, n))]
            ELSE IF n >= 5 /\ w[1] = "CREATE" /\ w[2] = "TABLE" /\ w[4] = "(LIKE"
            THEN [op |-> "CREATE", target |-> w[3], like |-> w[5]]
            ELSE IF n = 7 /\ w[1] = "INSERT" /\ w[2] = "INTO" /\ w[4] = "SELECT"
                    /\ w[5] = "*" /\ w[6] = "FROM"
            THEN [op |-> "INSERT SELECT", target |-> w[3], from |-> Unsemi(w[7])]
            ELSE [op |-> "?"]

\* whether row r of the target and row u of the USING table meet every
\* conjunct  <target>.<c> = <using>.<c'>
Matches(r, u, on) ==
    \A i \in 1..Len(on) :
        /\ Unqualified(on[i][1]) \in DOMAIN r
        /\ Unqualified(on[i][2]) \in DOMAIN u
        /\ r[Unqualified(on[i][1])] = u[Unqualified(on[i][2])]

\* bag b without the rows outside the set rows
Restrict(b, rows) == [r \in DOMAIN b \cap rows |-> b[r]]

\* whether the session can run the statement
Runs(d, stmt) ==
    LET p == Parse(stmt)
    IN  CASE p.op \in {"BEGIN", "COMMIT"} -> TRUE
          [] p.op = "DELETE" -> Resolve(p.target) = "destination"
          [] p.op = "DELETE USING" ->
                /\ Resolve(p.target) = "destination"
                /\ Resolve(p.using) = "temp" /\ d.stg # None
                /\ p.on # << >>
          [] p.op = "COPY" ->
                \/ Resolve(p.target) = "destination"
                \/ Resolve(p.target) = "temp" /\ d.stg # None
          [] p.op = "CREATE" ->
                Resolve(p.target) = "temp" /\ d.stg = None
                    /\ Resolve(p.like) = "destination"
          [] p.op = "INSERT SELECT" ->
                /\ Resolve(p.target) = "destination"
                /\ Resolve(p.from) = "temp" /\ d.stg # None
          [] OTHER -> FALSE

\* the session after the statement, before any automatic commit
Effect(d, stmt) ==
    LET p == Parse(stmt)
    IN  CASE p.op = "BEGIN" -> [d EXCEPT !.open = TRUE]
          [] p.op = "COMMIT" -> [d EXCEPT !.dst = d.work, !.open = FALSE]
          [] p.op = "DELETE" -> [d EXCEPT !.work = EmptyBag]
          [] p.op = "DELETE USING" ->
                LET kept(r) == ~ \E u \in DOMAIN d.stg[1] : Matches(r, u, p.on)
                IN  [d EXCEPT !.work =
                        Restrict(d.work, {r \in DOMAIN d.work : kept(r)})]
          [] p.op = "COPY" ->
                IF Resolve(p.target) = "temp"
                THEN [d EXCEPT !.stg = Some(d.stg[1] (+) d.src)]
                ELSE [d EXCEPT !.work = d.work (+) d.src]
          [] p.op = "CREATE" -> [d EXCEPT !.stg = Some(EmptyBag)]
          [] p.op = "INSERT SELECT" -> [d EXCEPT !.work = d.work (+) d.stg[1]]
          [] OTHER -> d

\* outside BEGIN..COMMIT a statement commits by itself when the session
\* commits statements individually
Settle(d) == IF d.individually /\ ~d.open THEN [d EXCEPT !.dst = d.work] ELSE d

\* the session runs the next statement of its queue
RunOne(d) == [Settle(Effect(d, Head(d.queue))) EXCEPT !.queue = Tail(d.queue)]

\* the session ends before its queue is done: a statement failed or the
\* run was interrupted; what was not committed is gone
Rollback(d) ==
    [d EXCEPT !.work = d.dst, !.stg = None, !.open = FALSE, !.queue = << >>]

\* the session ends with its queue done; a session that does not commit
\* statements individually commits what is left
Close(d) ==
    [d EXCEPT !.dst = IF d.individually THEN d.dst ELSE d.work,
              !.work = IF d.individually THEN d.dst ELSE d.work,
              !.stg = None, !.open = FALSE]

----------------------------------------------------------------------------
(* The run *)

\* the hook execute constructs
HookOf(s) == IF use_redshift_data(s) THEN "RedshiftDataHook" ELSE "RedshiftSQLHook"

\* as PrimaryKeyCall, with the SQL hook asked on both variants
PrimaryKeyCall_SqlHookOnly(s) == "RedshiftSQLHook.get_table_primary_key"

\* the call that asks for the primary key

PrimaryKeyCall(s) ==
    IF use_redshift_data(s)
    THEN "RedshiftDataHook.get_table_primary_key"
    ELSE "RedshiftSQLHook.get_table_primary_key"

\* the call that hands over the statements, with its arguments
ExecuteCall(s, sql) ==
    IF use_redshift_data(s)
    THEN [to |-> "execute_query", sql |-> sql,
          kwargs |-> s.redshift_data_api_kwargs, autocommit |-> FALSE]
    ELSE [to |-> "run", sql |-> sql, kwargs |-> << >>, autocommit |-> s.autocommit]

\* how the hook's session may commit statements outside BEGIN..COMMIT:
\* the SQL hook individually iff autocommit; how the Data API groups the
\* statements of one submission is its own choice
Groupings(s) == IF use_redshift_data(s) THEN BOOLEAN ELSE {s.autocommit}

\* the session the hook opens for the statements
OpenSession(d, sql, data, each) ==
    [d EXCEPT !.queue = sql.stmts, !.src = data, !.individually = each]

BlankSelf == InitFields([ schema |-> None, table |-> "", s3_bucket |-> "",
      s3_key |-> "", redshift_conn_id |-> "", aws_conn_id |-> None,
      verify |-> None, column_list |-> None, copy_options |-> None, autocommit |-> FALSE,
      method |-> "", upsert_keys |-> None, redshift_data_api_kwargs |-> None ])

BlankLoc ==
    [ conn |-> None, region_info |-> "", credentials_block |-> "",
      copy_options |-> "", destination |-> "", copy_destination |-> "",
      copy_statement |-> "", keys |-> None, sql |-> NoSql ]

NothingSent == [to |-> "", sql |-> NoSql, kwargs |-> << >>, autocommit |-> FALSE]

IdleDb ==
    [ dst |-> PreRows, work |-> PreRows, stg |-> None, open |-> FALSE,
      individually |-> FALSE, queue |-> << >>, src |-> EmptyBag ]

Init ==
    /\ pc = "new"
    /\ self = BlankSelf
    /\ err = ""
    /\ calls = << >>
    /\ loc = BlankLoc
    /\ sent = NothingSent
    /\ db = IdleDb

\* __init__
Construct ==
    /\ pc = "new"
    /\ \E a \in Args :
        /\ self' = InitFields(a)
        /\ err' = ReservedKwargError(self'.redshift_data_api_kwargs)
        /\ pc' = IF err' = "" THEN "ready" ELSE "init_failed"
    /\ UNCHANGED <<calls, loc, sent, db>>

\* execute: the check of the method
CheckMethod ==
    /\ pc = "ready"
    /\ IF MethodFound(self.method)
       THEN pc' = "hook" /\ err' = err
       ELSE pc' = "failed" /\ err' = MethodError
    /\ UNCHANGED <<self, calls, loc, sent, db>>

\* execute: the hook of the warehouse
MakeHook ==
    /\ pc = "hook"
    /\ calls' = Append(calls, HookOf(self))
    /\ pc' = "conn"
    /\ UNCHANGED <<self, err, loc, sent, db>>

\* execute: the S3 connection and its region
GetConnection ==
    /\ pc = "conn"
    /\ IF Truthy(self.aws_conn_id, "")
       THEN \E extra \in ConnExtras :
               /\ calls' = Append(calls, "S3Hook.get_connection")
               /\ loc' = [loc EXCEPT !.conn = Some(extra),
                                     !.region_info = region_info(Some(extra))]
       ELSE /\ calls' = calls
            /\ loc' = [loc EXCEPT !.conn = None, !.region_info = region_info(None)]
    /\ pc' = "creds"
    /\ UNCHANGED <<self, err, sent, db>>

\* execute: the credentials block
Credentials ==
    /\ pc = "creds"
    /\ IF ExtraGiven(loc.conn, "role_arn")
       THEN /\ calls' = calls
            /\ loc' = [loc EXCEPT !.credentials_block =
                            "aws_iam_role=" \o loc.conn[1]["role_arn"]]
       ELSE \E block \in CredentialBlocks :
               /\ calls' = calls \o <<"S3Hook", "S3Hook.get_credentials",
                                      "build_credentials_block">>
               /\ loc' = [loc EXCEPT !.credentials_block = block]
    /\ pc' = "copy"
    /\ UNCHANGED <<self, err, sent, db>>

\* execute: the COPY statement
BuildCopy ==
    /\ pc = "copy"
    /\ LET options == Join("\n\t\t\t", self.copy_options)
       IN  loc' = [loc EXCEPT
                !.copy_options = options,
                !.destination = destination(self),
                !.copy_destination = copy_destination(self),
                !.copy_statement =
                    _build_copy_query(self, copy_destination(self),
                                      loc.credentials_block, loc.region_info, options)]
    /\ pc' = "plan"
    /\ UNCHANGED <<self, err, calls, sent, db>>

\* execute: the statements of the method; for UPSERT the keys first
Plan ==
    /\ pc = "plan"
    /\ IF self.method = "UPSERT"
       THEN \E discovered \in
                    IF AsksBackendForKeys(self) THEN DiscoveredKeys ELSE {None} :
               LET keys == ResolveKeys(self, discovered)
               IN  /\ calls' = IF AsksBackendForKeys(self)
                               THEN Append(calls, PrimaryKeyCall(self))
                               ELSE calls
                   /\ IF NoKeys(keys)
                      THEN /\ loc' = [loc EXCEPT !.keys = keys]
                           /\ pc' = "failed"
                           /\ err' = NoPrimaryKeyError(self)
                      ELSE /\ loc' = [loc EXCEPT !.keys = keys,
                                        !.sql = PlanSql(self, keys[1], loc.copy_statement)]
                           /\ pc' = "submit"
                           /\ err' = err
       ELSE /\ loc' = [loc EXCEPT !.sql = PlanSql(self, << >>, loc.copy_statement)]
            /\ pc' = "submit"
            /\ UNCHANGED <<calls, err>>
    /\ UNCHANGED <<self, sent, db>>

\* execute: the statements go to the hook, which opens its session
Submit ==
    /\ pc = "submit"
    /\ sent' = ExecuteCall(self, loc.sql)
    /\ calls' = Append(calls, HookOf(self) \o "." \o sent'.to)
    /\ \E data \in SourceData, each \in Groupings(self) :
            db' = OpenSession(db, loc.sql, data, each)
    /\ pc' = "running"
    /\ UNCHANGED <<self, err, loc>>

\* the session runs its next statement; one it cannot run ends the run
BackendStep ==
    /\ pc = "running"
    /\ db.queue # << >>
    /\ IF Runs(db, Head(db.queue))
       THEN db' = RunOne(db) /\ pc' = pc /\ err' = err
       ELSE db' = Rollback(db) /\ pc' = "failed" /\ err' = "BackendExecutionError"
    /\ UNCHANGED <<self, calls, loc, sent>>

\* a statement fails, or the run is interrupted, at any point of the session
BackendAbort ==
    /\ pc = "running"
    /\ db' = Rollback(db)
    /\ pc' = "failed"
    /\ err' = "BackendExecutionError"
    /\ UNCHANGED <<self, calls, loc, sent>>

\* the hook returns; execute logs completion
Complete ==
    /\ pc = "running"
    /\ db.queue = << >>
    /\ db' = Close(db)
    /\ pc' = "done"
    /\ UNCHANGED <<self, err, calls, loc, sent>>

Next ==
    \/ Construct
    \/ CheckMethod
    \/ MakeHook
    \/ GetConnection
    \/ Credentials
    \/ BuildCopy
    \/ Plan
    \/ Submit
    \/ BackendStep
    \/ BackendAbort
    \/ Complete

Spec == Init /\ [][Next]_vars

----------------------------------------------------------------------------
(* Properties *)

StartsWith(s, p) == Len(s) >= Len(p) /\ SubSeq(s, 1, Len(p)) = p
EndsWith(s, p) == Len(s) >= Len(p) /\ SubSeq(s, Len(s) - Len(p) + 1, Len(s)) = p

\* the operator exists and execute has been entered or is about to be
Constructed == pc \notin {"new", "init_failed"}

\* the indices of the calls that ask a hook for the primary key
Discoveries == {i \in 1..Len(calls) : EndsWith(calls[i], ".get_table_primary_key")}

\* the indices of the calls that hand statements to a hook
Executions ==
    {i \in 1..Len(calls) :
        calls[i] \in {"RedshiftDataHook.execute_query", "RedshiftSQLHook.run"}}

\* nothing has reached the warehouse or its session
BackendUntouched == sent = NothingSent /\ db = IdleDb /\ Executions = {}

\* C1: with a method outside APPEND / REPLACE / UPSERT, execute ends with
\* the "Method not found" error and before that no hook is constructed, no
\* S3 connection or credentials are looked up, no primary key is asked for
\* and no statement is submitted.
C1_InvalidMethodTouchesNothing ==
    (Constructed /\ self.method \notin {"APPEND", "REPLACE", "UPSERT"}) =>
        /\ pc \in {"ready", "failed"}
        /\ pc = "failed" => err = MethodError
        /\ calls = << >>
        /\ loc = BlankLoc
        /\ BackendUntouched

C1_Witness ==
    pc = "failed" /\ self.method = "upsert" /\ err = MethodError /\ calls = << >>

\* "<schema>.<table>" when a schema is set (given and not empty), else "<table>"
NamedDestination ==
    IF self.schema # None /\ self.schema # Some("")
    THEN self.schema[1] \o "." \o self.table
    ELSE self.table

NamedStaging == "#" \o self.table

Submitted == sent.to # ""

\* C3: for REPLACE what is submitted is the list BEGIN; / DELETE FROM
\* <destination>; / the COPY statement / COMMIT, and the COPY loads into
\* that same <destination>.
C3_ReplaceSequence ==
    (Submitted /\ self.method = "REPLACE") =>
        /\ sent.sql.is_list
        /\ sent.sql.stmts =
             <<"BEGIN;", "DELETE FROM " \o NamedDestination \o ";",
               loc.copy_statement, "COMMIT">>
        /\ Parse(loc.copy_statement).op = "COPY"
        /\ Parse(loc.copy_statement).target = NamedDestination

C3_Witness ==
    /\ Submitted /\ self.method = "REPLACE" /\ self.schema = Some("public")
    /\ sent.sql.stmts[2] = "DELETE FROM public.orders;"

\* the conjuncts the keys call for: <table>.<key> = <staging>.<key>, in key order
NamedConjuncts(keys) ==
    [i \in 1..Len(keys) |->
        <<self.table \o "." \o keys[i], NamedStaging \o "." \o keys[i]>>]

\* C4: for UPSERT with resolved keys what is submitted is the six
\* statements CREATE TABLE <staging> (LIKE <destination> INCLUDING
\* DEFAULTS) / COPY into <staging> / BEGIN; / DELETE FROM <destination>
\* USING <staging> WHERE <one conjunct per key, in order, joined by AND> /
\* INSERT INTO <destination> SELECT * FROM <staging> / COMMIT.
C4_UpsertSequence ==
    (Submitted /\ self.method = "UPSERT") =>
        LET st == sent.sql.stmts
            keys == loc.keys[1]
            del == Parse(st[4])
            copy == Parse(st[2])
        IN  /\ sent.sql.is_list
            /\ Len(st) = 6
            /\ Len(keys) > 0
            /\ st[1] = "CREATE TABLE " \o NamedStaging \o " (LIKE "
                          \o NamedDestination \o " INCLUDING DEFAULTS);"
            /\ st[2] = loc.copy_statement
            /\ copy.op = "COPY"
            /\ copy.target = NamedStaging
            /\ copy.target # NamedDestination
            /\ st[3] = "BEGIN;"
            /\ StartsWith(st[4], "DELETE FROM " \o NamedDestination \o " USING "
                                    \o NamedStaging \o " WHERE ")
            /\ EndsWith(st[4], ";")
            /\ del.op = "DELETE USING"
            /\ del.on = NamedConjuncts(keys)
            /\ Len(Tokens(st[4])) = 6 + 3 * Len(keys) + (Len(keys) - 1)
            /\ st[5] = "INSERT INTO " \o NamedDestination \o " SELECT * FROM "
                          \o NamedStaging \o ";"
            /\ st[6] = "COMMIT"

C4_Witness ==
    /\ Submitted /\ self.method = "UPSERT" /\ self.schema = Some("public")
    /\ loc.keys = Some(<<"id", "v">>)
    /\ sent.sql.stmts[4] = "DELETE FROM public.orders USING #orders WHERE "
            \o "orders.id = #orders.id AND orders.v = #orders.v;"

\* C6: for APPEND what is submitted is one statement, the COPY into
\* <destination>, a str and not a list, with no BEGIN / COMMIT, no DELETE
\* and no staging table, and no primary key is asked for.
C6_AppendSingleCopy ==
    (Submitted /\ self.method = "APPEND") =>
        LET words == Tokens(sent.sql.stmts[1])
        IN  /\ ~sent.sql.is_list
            /\ sent.sql.stmts = <<loc.copy_statement>>
            /\ Parse(sent.sql.stmts[1]).op = "COPY"
            /\ Parse(sent.sql.stmts[1]).target = NamedDestination
            /\ \A i \in 1..Len(words) :
                 /\ Unsemi(words[i]) \notin {"BEGIN", "COMMIT", "DELETE", "CREATE"}
                 /\ ~StartsWith(words[i], "#")
            /\ Discoveries = {}

C6_Witness ==
    /\ pc = "done" /\ self.method = "APPEND" /\ self.upsert_keys = None
    /\ Len(sent.sql.stmts) = 1 /\ Len(calls) > 1

\* the planned statements, once execute has planned them
Planned == loc.sql # NoSql

\* statement p, as parsed, changes the rows of the destination table
ChangesDestination(p) ==
    /\ p.op \in {"DELETE", "DELETE USING", "COPY", "INSERT SELECT"}
    /\ Resolve(p.target) = "destination"

PlannedOps == [i \in 1..Len(loc.sql.stmts) |-> Parse(loc.sql.stmts[i])]

\* C10: a REPLACE or UPSERT plan holds BEGIN once and COMMIT once, COMMIT
\* last; every statement that changes the destination lies strictly
\* between them; in UPSERT the CREATE TABLE of the staging table and the
\* COPY into it come before BEGIN.
C10_TransactionScope ==
    (Planned /\ self.method \in {"REPLACE", "UPSERT"}) =>
        LET ops == PlannedOps
            n == Len(ops)
            begins == {i \in 1..n : ops[i].op = "BEGIN"}
            commits == {i \in 1..n : ops[i].op = "COMMIT"}
        IN  /\ Cardinality(begins) = 1
            /\ commits = {n}
            /\ \E i \in 1..n : ChangesDestination(ops[i])
            /\ \A i \in 1..n :
                 ChangesDestination(ops[i]) => \A b \in begins : b < i /\ i < n
            /\ self.method = "UPSERT" =>
                 /\ \E i \in 1..n : ops[i].op = "CREATE"
                 /\ \E i \in 1..n : ops[i].op = "COPY"
                 /\ \A i \in 1..n :
                      ops[i].op \in {"CREATE", "COPY"}
                      => /\ Resolve(ops[i].target) = "temp"
                         /\ \A b \in begins : i < b

C10_Witness ==
    /\ Planned /\ self.method = "UPSERT" /\ Len(loc.sql.stmts) = 6
    /\ PlannedOps[1].op = "CREATE" /\ PlannedOps[2].op = "COPY"
    /\ PlannedOps[3].op = "BEGIN" /\ ChangesDestination(PlannedOps[4])
    /\ ChangesDestination(PlannedOps[5]) /\ PlannedOps[6].op = "COMMIT"

\* upsert keys are supplied: given and not empty
KeysSupplied == self.upsert_keys # None /\ self.upsert_keys # Some(<< >>)

\* execute is past the point where it resolves the keys
KeysResolved == Planned \/ (pc = "failed" /\ StartsWith(err, "No primary key on "))

\* C5: for UPSERT with no upsert keys supplied, when the hook finds no
\* primary key, execute ends with the "No primary key" error and neither
\* execute_query nor run is called; the warehouse is left as it was.
C5_NoPrimaryKeyNoStatement ==
    (/\ Constructed /\ self.method = "UPSERT" /\ ~KeysSupplied
     /\ Discoveries # {} /\ loc.keys \in {None, Some(<< >>)}) =>
        /\ pc = "failed"
        /\ StartsWith(err, "No primary key on ")
        /\ BackendUntouched

C5_Witness ==
    /\ pc = "failed" /\ self.method = "UPSERT" /\ self.upsert_keys = Some(<< >>)
    /\ loc.keys = Some(<< >>)
    /\ calls[Len(calls)] = "RedshiftDataHook.get_table_primary_key"

ReservedKeys == {"sql", "parameters"}

\* C7: constructing the operator with Data API kwargs that hold the key
\* sql or the key parameters fails in __init__, before any statement is
\* built or any hook is used; so the kwargs execute forwards to
\* execute_query never hold either key.
C7_ReservedKwargsRejected ==
    /\ (pc # "new" /\ DOMAIN self.redshift_data_api_kwargs \cap ReservedKeys # {}) =>
            /\ pc = "init_failed"
            /\ StartsWith(err, "Cannot include param '")
            /\ calls = << >>
            /\ loc = BlankLoc
            /\ BackendUntouched
    /\ sent.to = "execute_query" => DOMAIN sent.kwargs \cap ReservedKeys = {}

C7_Witness ==
    /\ pc = "init_failed"
    /\ "parameters" \in DOMAIN self.redshift_data_api_kwargs
    /\ err = "Cannot include param 'parameters' in Redshift Data API kwargs"

\* C9: for UPSERT, supplied keys are used and no hook is asked for the
\* primary key; otherwise the key is asked for exactly once, from the hook
\* of the variant that later gets the statements (the Data API hook iff
\* the Data API kwargs are not empty), and before any statement is handed
\* over.  For APPEND and REPLACE the key is never asked for.
C9_KeyResolution ==
    Constructed =>
        /\ Cardinality(Discoveries) <= 1
        /\ self.method \in {"APPEND", "REPLACE"} => Discoveries = {}
        /\ (self.method = "UPSERT" /\ KeysSupplied) =>
                /\ Discoveries = {}
                /\ KeysResolved => loc.keys = self.upsert_keys
        /\ (self.method = "UPSERT" /\ ~KeysSupplied /\ KeysResolved) =>
                Cardinality(Discoveries) = 1
        /\ \A d \in Discoveries :
                /\ calls[d] = (IF self.redshift_data_api_kwargs # << >>
                               THEN "RedshiftDataHook.get_table_primary_key"
                               ELSE "RedshiftSQLHook.get_table_primary_key")
                /\ \A e \in Executions :
                     /\ d < e
                     /\ StartsWith(calls[d], "RedshiftDataHook")
                            <=> StartsWith(calls[e], "RedshiftDataHook")

C9_Witness ==
    /\ pc = "done" /\ self.method = "UPSERT" /\ ~KeysSupplied
    /\ loc.keys = Some(<<"id">>)
    /\ \E d \in Discoveries, e \in Executions :
            /\ d < e
            /\ calls[d] = "RedshiftDataHook.get_table_primary_key"
            /\ calls[e] = "RedshiftDataHook.execute_query"

\* rows r and u agree on every key column
SameKey(r, u, keys) == \A i \in 1..Len(keys) : r[keys[i]] = u[keys[i]]

\* the destination once the load is complete: for REPLACE the loaded rows;
\* for UPSERT the old rows no loaded row shares its key with, and the
\* loaded rows; for APPEND the old rows and the loaded rows
Loaded(data) ==
    IF self.method = "REPLACE" THEN data
    ELSE IF self.method = "UPSERT"
    THEN LET stays(r) == ~ \E u \in DOMAIN data : SameKey(r, u, loc.keys[1])
         IN  Restrict(PreRows, {r \in DOMAIN PreRows : stays(r)}) (+) data
    ELSE PreRows (+) data

\* C2: for REPLACE and UPSERT, in a session that honours BEGIN / COMMIT,
\* whoever reads the destination table at any point of the run, also when a
\* statement fails or the run is interrupted, finds the rows from before
\* the load or the rows of the completed load, never the outcome of the
\* DELETE without the COPY or INSERT that goes with it.
C2_ReadersSeeBeforeOrAfter ==
    (Constructed /\ self.method \in {"REPLACE", "UPSERT"}) =>
        IF Submitted
        THEN /\ db.dst \in {PreRows, Loaded(db.src)}
             /\ pc = "done" => db.dst = Loaded(db.src)
        ELSE db.dst = PreRows

\* the DELETE has run in the session and the statement that refills the
\* table has not; readers still find the old rows
C2_Witness ==
    /\ pc = "running" /\ self.method \in {"REPLACE", "UPSERT"}
    /\ db.open /\ db.individually
    /\ db.work \notin {PreRows, Loaded(db.src)}
    /\ db.work # db.dst
    /\ db.dst = PreRows

\* the same request with the other execution backend
OtherVariant(s) ==
    [s EXCEPT !.redshift_data_api_kwargs =
        IF use_redshift_data(s) THEN << >> ELSE [k \in {"database"} |-> "dev"]]

RECURSIVE Drain(_)
\* the session after its whole queue, or after the statement it cannot run
Drain(d) ==
    IF d.queue = << >> THEN Close(d)
    ELSE IF Runs(d, Head(d.queue)) THEN Drain(RunOne(d))
    ELSE Rollback(d)

\* what execute hands over for request s, given the keys, the credentials
\* and the region of this run
HandedOver(s) ==
    PlanSql(s, IF loc.keys = None THEN << >> ELSE loc.keys[1],
            _build_copy_query(s, copy_destination(s), loc.credentials_block,
                              loc.region_info, loc.copy_options))

\* C8: the two backends get the same statements and leave the same table:
\* what this run handed to its hook is what the same request, with the
\* same resolved keys, hands to the hook of the other variant, and the
\* destination this run ends with is the destination the other variant's
\* session ends with, however that session groups its statements.
C8_VariantsAgree ==
    /\ Submitted =>
            /\ sent.sql = HandedOver(OtherVariant(self))
            /\ ExecuteCall(OtherVariant(self), sent.sql).to # sent.to
    /\ pc = "done" =>
            /\ db.dst = Loaded(db.src)
            /\ \A each \in Groupings(OtherVariant(self)) :
                 Drain(OpenSession(IdleDb, HandedOver(OtherVariant(self)),
                                   db.src, each)).dst = db.dst

C8_Witness ==
    /\ pc = "done" /\ self.method = "UPSERT" /\ use_redshift_data(self)
    /\ loc.keys = Some(<<"id">>)
    /\ db.dst # PreRows
    /\ db.dst = SetToBag({Row(1, "new")} \cup {Row(i, "old") : i \in 2..(MaxId + 1)})

====
